---- MODULE Spec2Model ----
(***************************************************************************)
(* Model of src/cloudflare-turnstile-handler.js: the                       *)
(* UniversalFormSecurityHandler class that validates annotated forms,      *)
(* injects a honeypot and a page-URL field, drives one Turnstile widget    *)
(* per form and gates the submission on the widget's token.                *)
(*                                                                         *)
(* JavaScript runs the handlers one at a time, so every handler (the       *)
(* page-ready setup, a script's onload, a widget callback, a submit event, *)
(* the continuation of handleFormSubmit after its awaits, a timer) is one  *)
(* atomic action.  The browser, the user, the Turnstile widget and the     *)
(* worker are the environment: they choose which event comes next and its  *)
(* inputs.                                                                 *)
(***************************************************************************)
EXTENDS Integers, Sequences, FiniteSets, TLC

(***************************************************************************)
(* Bounds of the model.                                                    *)
(***************************************************************************)
\* distinct token values the widget hands out (1..MaxTokens)
MaxTokens == 2
\* verification requests of one form that may be unresolved at once
MaxInflight == 2
\* setTimeout callbacks of one form that may be pending at once
MaxTimers == 1
\* values of Math.floor(Math.random() * 8) that are drawn (0..MaxRandom-1)
MaxRandom == 2
\* authored inputs of a form in the validation and injection specifications
MaxFields == 2
\* injection passes in the injection specification
MaxPasses == 3

(***************************************************************************)
(* JavaScript values.                                                      *)
(***************************************************************************)
\* null / undefined, for string-valued attributes and properties
NULL == "<null>"
\* config.turnstileToken = null
NoToken == 0
Tokens == 1..MaxTokens
\* !x for a string, null or undefined
Falsy(s) == s = NULL \/ s = ""

FormIds == {"A", "B"}
\* document order of the forms (querySelectorAll)
FormOrder == <<"A", "B">>

(***************************************************************************)
(* FORM_CONFIG.                                                            *)
(***************************************************************************)
loadingText == "Sending..."
enableHoneypot == TRUE
honeypotFieldNames ==
  << "honeypot_website", "honeypot_url", "honeypot_company_site",
     "honeypot_business_url", "bot_trap_website", "bot_trap_url",
     "spam_trap_site", "spam_trap_link" >>
pageUrlFieldEnabled == TRUE
pageUrlFieldName == "Page URL"

\* the messages handed to showError
MsgVerificationRequired == "Please complete the security verification."
MsgTurnstileError == "Security verification failed. Please try again."
MsgGenericFailure == "Something went wrong. Please try again."
MsgNetworkError == "Network error. Please check your connection and try again."

(***************************************************************************)
(* DOM elements of a form: its input elements, in document order.  An      *)
(* element is a record: name is the name attribute (NULL when absent),     *)
(* fieldType and fieldData the cf-field-type and cf-field-data attributes  *)
(* (NULL when absent), honeypot the data-honeypot="true" marker, pageUrl   *)
(* the data-page-url="true" marker.                                        *)
(***************************************************************************)
Element(name, inputType, fieldType, fieldData, value, checked, honeypot, pageUrl) ==
  [ name |-> name, inputType |-> inputType, fieldType |-> fieldType,
    fieldData |-> fieldData, value |-> value, checked |-> checked,
    honeypot |-> honeypot, pageUrl |-> pageUrl ]

\* field.name: the reflected name attribute, "" when the attribute is absent
DomName(e) == IF e.name = NULL THEN "" ELSE e.name

\* field.name || field.getAttribute("name")
FieldName(e) == IF ~Falsy(DomName(e)) THEN DomName(e) ELSE e.name

\* formElement.querySelectorAll("[cf-field-type]")
AnnotatedFields(dom) == SelectSeq(dom, LAMBDA e : e.fieldType # NULL)

\* the errors.push calls of one forEach iteration, in order
FieldErrors(e) ==
  (IF Falsy(e.fieldType) THEN << <<"missing-type", FieldName(e)>> >> ELSE << >>)
  \o (IF Falsy(e.fieldData) /\ e.fieldType # "ignore" /\ e.fieldType # "system-metadata"
        THEN << <<"missing-data", FieldName(e)>> >> ELSE << >>)
  \o (IF Falsy(FieldName(e)) THEN << <<"missing-name", e.fieldType>> >> ELSE << >>)

\* a validation loop that stops at the first field with an error
RECURSIVE CollectErrorsOfFirst(_)
CollectErrorsOfFirst(fields) ==
  IF fields = << >> THEN << >>
  ELSE IF FieldErrors(Head(fields)) # << >> THEN FieldErrors(Head(fields))
  ELSE CollectErrorsOfFirst(Tail(fields))

RECURSIVE CollectErrors(_)
CollectErrors(fields) ==
  IF fields = << >> THEN << >>
  ELSE FieldErrors(Head(fields)) \o CollectErrors(Tail(fields))

\* validateFieldConfiguration(formElement)
ValidateFieldConfiguration(dom) ==
  LET fields == AnnotatedFields(dom)
      errors == CollectErrors(fields)
  IN  [ valid |-> Len(errors) = 0,
        errors |-> errors,
        configuredFields |->
          [ i \in 1..Len(fields) |->
              [ name |-> FieldName(fields[i]), type |-> fields[i].fieldType,
                data |-> fields[i].fieldData ] ] ]

\* setupHoneypot without the check for an existing trap field
SetupHoneypotUnchecked(dom, r) ==
  << Element(honeypotFieldNames[r + 1], "text", NULL, NULL, "", FALSE, TRUE, FALSE) >>
  \o dom

\* setupHoneypot(config): r is Math.floor(Math.random() * honeypotFieldNames.length)
SetupHoneypot(dom, r) ==
  IF ~enableHoneypot THEN dom
  ELSE IF \E i \in 1..Len(dom) : dom[i].honeypot THEN dom
  ELSE << Element(honeypotFieldNames[r + 1], "text", NULL, NULL, "", FALSE, TRUE, FALSE) >>
       \o dom

\* setupPageUrlField(config): href is window.location.href
SetupPageUrlField(dom, href) ==
  IF ~pageUrlFieldEnabled THEN dom
  ELSE IF \E i \in 1..Len(dom) : dom[i].name = pageUrlFieldName
    THEN LET first == CHOOSE i \in 1..Len(dom) :
                        /\ dom[i].name = pageUrlFieldName
                        /\ \A j \in 1..(i - 1) : dom[j].name # pageUrlFieldName
         IN  [dom EXCEPT ![first].value = href]
  ELSE << Element(pageUrlFieldName, "hidden", "system-metadata", NULL, href,
                  FALSE, FALSE, TRUE) >> \o dom

(***************************************************************************)
(* JavaScript objects: functions from their keys.  A value is a record     *)
(* with one field that tells its type: [bool |-> b], [str |-> s] or        *)
(* [obj |-> o].                                                            *)
(***************************************************************************)
EmptyObject == [k \in {} |-> [str |-> ""]]
\* o[k] = v
Put(o, k, v) == [x \in DOMAIN o \cup {k} |-> IF x = k THEN v ELSE o[x]]

\* collectFormData with radios collected like any other control
CollectInputRadioAsValue(acc, input) ==
  IF Falsy(DomName(input)) \/ input.inputType = "submit" THEN acc
  ELSE [ formData |->
           IF input.inputType = "checkbox"
             THEN Put(acc.formData, DomName(input), [bool |-> input.checked])
             ELSE Put(acc.formData, DomName(input), [str |-> input.value]),
         fieldTypes |-> acc.fieldTypes,
         fieldDataDescriptions |-> acc.fieldDataDescriptions ]

\* one iteration of the inputs.forEach of collectFormData
CollectInput(acc, input) ==
  IF Falsy(DomName(input)) \/ input.inputType = "submit" THEN acc
  ELSE [ formData |->
           IF input.inputType = "checkbox"
             THEN Put(acc.formData, DomName(input), [bool |-> input.checked])
           ELSE IF input.inputType = "radio"
             THEN IF input.checked
                    THEN Put(acc.formData, DomName(input), [str |-> input.value])
                    ELSE acc.formData
           ELSE Put(acc.formData, DomName(input), [str |-> input.value]),
         fieldTypes |->
           IF ~Falsy(input.fieldType)
             THEN Put(acc.fieldTypes, DomName(input), [str |-> input.fieldType])
             ELSE acc.fieldTypes,
         fieldDataDescriptions |->
           IF ~Falsy(input.fieldData)
             THEN Put(acc.fieldDataDescriptions, DomName(input), [str |-> input.fieldData])
             ELSE acc.fieldDataDescriptions ]

RECURSIVE CollectInputs(_, _)
\* inputs.forEach(...) of collectFormData, in document order
CollectInputs(acc, inputs) ==
  IF inputs = << >> THEN acc
  ELSE CollectInputs(CollectInput(acc, Head(inputs)), Tail(inputs))

\* collectFormData(config): the returned formData object
CollectFormData(dom) ==
  LET acc == CollectInputs([ formData |-> EmptyObject, fieldTypes |-> EmptyObject,
                             fieldDataDescriptions |-> EmptyObject ], dom)
      trapped ==
        IF enableHoneypot /\ \E i \in 1..Len(dom) : dom[i].honeypot
          THEN LET trap == dom[CHOOSE i \in 1..Len(dom) :
                                 /\ dom[i].honeypot
                                 /\ \A j \in 1..(i - 1) : ~dom[j].honeypot]
               IN  Put(Put(acc.formData, "_honeypot_field_name", [str |-> DomName(trap)]),
                       "_honeypot_filled", [bool |-> trap.value # ""])
          ELSE acc.formData
  IN  Put(Put(trapped, "fieldTypes", [obj |-> acc.fieldTypes]),
          "fieldDataDescriptions", [obj |-> acc.fieldDataDescriptions])

(***************************************************************************)
(* State.                                                                  *)
(***************************************************************************)
VARIABLES
  \* the document as authored, per form: present (a form[cf-form] element
  \* exists), siteKey and formPurpose (attribute values, NULL when absent),
  \* fields (the authored input elements), submitButton, submitLabel,
  \* errorElement, errorText (whether querySelector finds each element) and
  \* labelText (the label's authored innerHTML)
  page,
  \* whether document.querySelector('[cf-form-submit="success"]') finds an element
  successElement,
  \* window.location.href
  href,
  \* window.turnstile is defined (the provider's script has run)
  turnstile,
  \* whether setupForms has run (the constructor's init / DOMContentLoaded)
  ready,
  \* this.forms: the registered forms, in push order
  forms,
  \* per form, the config object and the DOM state its handlers change
  config,
  \* per form, the form's input elements (authored and injected)
  dom,
  \* per form, the script elements appended by loadTurnstile that have not loaded
  scripts,
  \* per form, the number of submit-listener pairs setupFormSubmission attached
  listeners,
  \* per form, the bodies of the fetch calls that are unresolved
  requests,
  \* successElement.style.display = "block" has been set
  successDisplayed,
  \* per form, the fieldValidation.errors setupSingleForm passed to
  \* console.error (empty when it logged none)
  errors,
  \* the injection passes run on form A so far (passes) and the name of its
  \* trap field after the first of them (trapName)
  inject,
  \* the object collectFormData returned last (empty before the first call)
  collected,
  \* the event handled last: what it was and what the handler did to the event
  ev

vars == << page, successElement, href, turnstile, ready, forms, config, dom,
           scripts, listeners, requests, successDisplayed, errors, inject,
           collected, ev >>

\* what no event handler of the controller changes
static == << page, successElement, href, inject, collected >>

(***************************************************************************)
(* The config object of setupSingleForm together with the DOM state of the *)
(* elements it references.  alerts, resets and renders record, for the     *)
(* handler that ran last on the form, the messages it passed to alert(),   *)
(* the window.turnstile.reset calls it made ("widget": with the widget id, *)
(* "global": without) and the number of window.turnstile.render calls.     *)
(* timers holds the pending setTimeout callbacks of resetTurnstileOnError, *)
(* oldest first, each with a flag: the widget's token callback has run     *)
(* since the timeout was set.                                              *)
(***************************************************************************)
InitialConfig(p) ==
  [ turnstileToken |-> NoToken,
    turnstileWidgetId |-> NULL,
    originalButtonText |-> NULL,
    disabled |-> FALSE,
    label |-> p.labelText,
    errorHidden |-> TRUE,
    errorText |-> "",
    formHidden |-> FALSE,
    timers |-> << >>,
    alerts |-> << >>,
    resets |-> << >>,
    renders |-> 0 ]

\* a handler starts with nothing alerted, no reset call made and no widget
\* rendered
BeginHandler(c) == [c EXCEPT !.alerts = << >>, !.resets = << >>, !.renders = 0]

\* an enableSubmitButton that leaves the control as it is
EnableSubmitButtonIdle(p, c) == c

\* enableSubmitButton(config)
EnableSubmitButton(p, c) ==
  IF p.submitButton THEN [c EXCEPT !.disabled = FALSE] ELSE c

\* disableSubmitButton(config)
DisableSubmitButton(p, c) ==
  IF p.submitButton THEN [c EXCEPT !.disabled = TRUE] ELSE c

\* setSubmitButtonLoading(config, loading)
SetSubmitButtonLoading(p, c, loading) ==
  IF ~p.submitButton THEN c
  ELSE IF loading
    THEN IF p.submitLabel
           THEN [c EXCEPT !.disabled = TRUE,
                          !.originalButtonText = c.label,
                          !.label = loadingText]
           ELSE [c EXCEPT !.disabled = TRUE]
    ELSE IF p.submitLabel /\ ~Falsy(c.originalButtonText)
           THEN [c EXCEPT !.disabled = FALSE, !.label = c.originalButtonText]
           ELSE [c EXCEPT !.disabled = FALSE]

\* showError(config, message)
ShowError(p, c, message) ==
  IF p.errorElement /\ p.errorText
    THEN [c EXCEPT !.errorText = message, !.errorHidden = FALSE]
    ELSE [c EXCEPT !.alerts = Append(c.alerts, message)]

\* hideError(config)
HideError(p, c) ==
  IF p.errorElement THEN [c EXCEPT !.errorHidden = TRUE] ELSE c

\* renderTurnstile(config): window.turnstile.render returns the widget's id;
\* the three callbacks it registers are the actions TokenCallback,
\* ErrorCallback and ExpiredCallback
RenderTurnstile(p, c) ==
  DisableSubmitButton(p, [c EXCEPT !.turnstileWidgetId = "widget",
                                   !.renders = c.renders + 1])

\* resetTurnstileOnError(config): the reset call is wrapped in try/catch, so
\* whether it throws changes nothing here; the setTimeout callback is the
\* action RerenderTimer
ResetTurnstileOnError(p, c, hasTurnstile) ==
  IF ~hasTurnstile THEN c
  ELSE LET r == [c EXCEPT !.resets =
                    Append(c.resets, IF c.turnstileWidgetId # NULL
                                       THEN "widget" ELSE "global")]
       IN  DisableSubmitButton(p, [r EXCEPT !.turnstileToken = NoToken,
                                            !.timers = Append(r.timers, FALSE)])

\* handleSuccess without its last statement: the token outlives the success
HandleSuccessKeepsToken(p, c, hasTurnstile, throws) ==
  LET hidden == [c EXCEPT !.formHidden = TRUE]
  IN  [ c |-> IF hasTurnstile
                THEN [hidden EXCEPT !.resets = Append(hidden.resets, "global")]
                ELSE hidden,
        threw |-> hasTurnstile /\ throws ]

\* handleSuccess(config): the form is hidden and the success element shown
\* (SuccessShown below) before window.turnstile.reset() is called without a
\* widget id; that call is not inside a try block, so when it throws the
\* token is not cleared here and the exception reaches the caller
HandleSuccess(p, c, hasTurnstile, throws) ==
  LET hidden == [c EXCEPT !.formHidden = TRUE]
      reset  == IF hasTurnstile
                  THEN [hidden EXCEPT !.resets = Append(hidden.resets, "global")]
                  ELSE hidden
  IN  IF hasTurnstile /\ throws
        THEN [c |-> reset, threw |-> TRUE]
        ELSE [c |-> [reset EXCEPT !.turnstileToken = NoToken], threw |-> FALSE]

\* handleFormSubmit without the token check: the request is sent whether or
\* not there is a token
HandleFormSubmitNoTokenCheck(p, c) ==
  [ c |-> SetSubmitButtonLoading(p, HideError(p, c), TRUE),
    sent |-> TRUE,
    body |-> << [ turnstileToken |-> c.turnstileToken,
                  formPurpose |-> p.formPurpose ] >> ]

\* handleFormSubmit(config) up to its first await: sent tells whether fetch
\* was called, body is the request's JSON body
HandleFormSubmit(p, c) ==
  LET cleared == HideError(p, c)
  IN  IF c.turnstileToken = NoToken
        THEN [ c |-> ShowError(p, cleared, MsgVerificationRequired),
               sent |-> FALSE, body |-> << >> ]
        ELSE [ c |-> SetSubmitButtonLoading(p, cleared, TRUE),
               sent |-> TRUE,
               body |-> << [ turnstileToken |-> c.turnstileToken,
                             formPurpose |-> p.formPurpose ] >> ]

\* the outcomes of `await fetch(...)` followed by `await response.json()`:
\* the request is rejected, the body is not JSON, or the result is an object
\* with success true or false
Outcomes == {"rejected", "unparsable", "success", "failure"}
\* result.error?.message: absent or empty, or the worker's message
WorkerMessage == "Submission blocked."
Messages == {NULL, "", WorkerMessage}

\* the try block of handleFormSubmit after the awaits
TryBlock(p, c, outcome, message, hasTurnstile, throws) ==
  CASE outcome = "success" -> HandleSuccess(p, c, hasTurnstile, throws)
    [] outcome = "failure" ->
         [ c |-> ShowError(p, ResetTurnstileOnError(p, c, hasTurnstile),
                           IF Falsy(message) THEN MsgGenericFailure ELSE message),
           threw |-> FALSE ]
    [] OTHER -> [c |-> c, threw |-> TRUE]

\* the catch block without the failure recovery
CatchBlockNoReset(p, c, hasTurnstile) == ShowError(p, c, MsgNetworkError)

\* the catch block of handleFormSubmit
CatchBlock(p, c, hasTurnstile) ==
  ShowError(p, ResetTurnstileOnError(p, c, hasTurnstile), MsgNetworkError)

\* a finally block that leaves the loading presentation in place
FinallyBlockSkipped(p, c) == c

\* the finally block of handleFormSubmit
FinallyBlock(p, c) == SetSubmitButtonLoading(p, c, FALSE)

\* handleFormSubmit(config) from the resolution of its awaits to its end
ResumeFormSubmit(p, c, outcome, message, hasTurnstile, throws) ==
  LET tried == TryBlock(p, c, outcome, message, hasTurnstile, throws)
      after == IF tried.threw THEN CatchBlock(p, tried.c, hasTurnstile) ELSE tried.c
  IN  FinallyBlock(p, after)

\* a guard that tests the site key and forgets the purpose
HasSiteKeyOnly(p) == ~Falsy(p.siteKey)

\* the guard of setupSingleForm on the form's attributes
HasRequiredAttributes(p) == ~(Falsy(p.siteKey) \/ Falsy(p.formPurpose))

\* what the handler that ran last was: op names the event, form its form,
\* outcome the branch taken or the response received, message the response's
\* error.message, token the token callback's argument, prevented whether
\* preventDefault was called on the event
Event(op, f, outcome, message, token, prevented) ==
  [ op |-> op, form |-> f, outcome |-> outcome, message |-> message,
    token |-> token, prevented |-> prevented ]

\* setupSingleForm(formElement): d is the form's input elements, c its DOM
\* state, r the random draw of setupHoneypot, url window.location.href.
\* registered: this.forms.push(config); script: loadTurnstile appended a
\* script element whose onload renders the form's widget; listener:
\* setupFormSubmission attached its listeners; errors: the field errors
\* passed to console.error
SetupSingleForm(p, d, c, hasTurnstile, r, url) ==
  IF ~HasRequiredAttributes(p)
    THEN [ registered |-> FALSE, dom |-> d, config |-> c,
           script |-> FALSE, listener |-> FALSE, errors |-> << >> ]
  ELSE IF ~ValidateFieldConfiguration(d).valid
    THEN [ registered |-> FALSE, dom |-> d, config |-> c,
           script |-> FALSE, listener |-> FALSE,
           errors |-> ValidateFieldConfiguration(d).errors ]
    ELSE [ registered |-> TRUE, errors |-> << >>,
           dom |-> SetupPageUrlField(SetupHoneypot(d, r), url),
           config |-> IF hasTurnstile THEN RenderTurnstile(p, c) ELSE c,
           script |-> ~hasTurnstile,
           listener |-> TRUE ]

(***************************************************************************)
(* Actions.                                                                *)
(***************************************************************************)
\* setupForms(): setupSingleForm for every form[cf-form] of the document, in
\* document order
SetupForms ==
  /\ ~ready
  /\ \E r \in [FormIds -> 0..(MaxRandom - 1)] :
       LET done == [ f \in FormIds |->
                     IF page[f].present
                       THEN SetupSingleForm(page[f], dom[f], BeginHandler(config[f]),
                                            turnstile, r[f], href)
                       ELSE [ registered |-> FALSE, dom |-> dom[f],
                              config |-> config[f], script |-> FALSE,
                              listener |-> FALSE, errors |-> << >> ] ]
       IN  /\ forms' = SelectSeq(FormOrder, LAMBDA f : done[f].registered)
           /\ dom' = [f \in FormIds |-> done[f].dom]
           /\ config' = [f \in FormIds |-> done[f].config]
           /\ errors' = [f \in FormIds |-> done[f].errors]
           /\ scripts' = [f \in FormIds |-> scripts[f] + (IF done[f].script THEN 1 ELSE 0)]
           /\ listeners' = [f \in FormIds |->
                              listeners[f] + (IF done[f].listener THEN 1 ELSE 0)]
  /\ ready' = TRUE
  /\ ev' = Event("setup", "-", "-", NULL, NoToken, FALSE)
  /\ UNCHANGED << static, turnstile, requests, successDisplayed >>

\* script.onload of the script element loadTurnstile appended for form f:
\* the provider's script has run, and the callback renders the widget
ScriptLoad(f) ==
  /\ scripts[f] > 0
  /\ scripts' = [scripts EXCEPT ![f] = @ - 1]
  /\ turnstile' = TRUE
  /\ config' = [config EXCEPT ![f] = RenderTurnstile(page[f], BeginHandler(@))]
  /\ ev' = Event("onload", f, "-", NULL, NoToken, FALSE)
  /\ UNCHANGED << static, ready, forms, dom, listeners, requests, successDisplayed,
                  errors >>

\* a token callback that stores the token and leaves the control disabled
OnTokenNoEnable(p, c, token) == [c EXCEPT !.turnstileToken = token]

\* the widget's callback: a token was acquired
OnToken(p, c, token) ==
  EnableSubmitButton(p, [c EXCEPT !.turnstileToken = token,
                                  !.timers = [i \in DOMAIN c.timers |-> TRUE]])

\* an error-callback that shows no message
OnErrorSilent(p, c) ==
  DisableSubmitButton(p, [c EXCEPT !.turnstileToken = NoToken])

\* the widget's error-callback
OnError(p, c) ==
  ShowError(p, DisableSubmitButton(p, [c EXCEPT !.turnstileToken = NoToken]),
            MsgTurnstileError)

\* an expired-callback that keeps the expired token
OnExpiredKeepsToken(p, c) == DisableSubmitButton(p, c)

\* the widget's expired-callback
OnExpired(p, c) ==
  DisableSubmitButton(p, [c EXCEPT !.turnstileToken = NoToken])

TokenCallback(f, token) ==
  /\ config[f].turnstileWidgetId # NULL
  /\ config' = [config EXCEPT ![f] = OnToken(page[f], BeginHandler(@), token)]
  /\ ev' = Event("token", f, "-", NULL, token, FALSE)
  /\ UNCHANGED << static, turnstile, ready, forms, dom, scripts, listeners,
                  requests, successDisplayed, errors >>

ErrorCallback(f) ==
  /\ config[f].turnstileWidgetId # NULL
  /\ config' = [config EXCEPT ![f] = OnError(page[f], BeginHandler(@))]
  /\ ev' = Event("error", f, "-", NULL, NoToken, FALSE)
  /\ UNCHANGED << static, turnstile, ready, forms, dom, scripts, listeners,
                  requests, successDisplayed, errors >>

ExpiredCallback(f) ==
  /\ config[f].turnstileWidgetId # NULL
  /\ config' = [config EXCEPT ![f] = OnExpired(page[f], BeginHandler(@))]
  /\ ev' = Event("expired", f, "-", NULL, NoToken, FALSE)
  /\ UNCHANGED << static, turnstile, ready, forms, dom, scripts, listeners,
                  requests, successDisplayed, errors >>

\* the browser dispatches a submit event on form f only when the user can
\* submit it: the form is displayed and its submit control, if the form has
\* one, is not disabled
CanSubmit(f) ==
  /\ listeners[f] > 0
  /\ ~config[f].formHidden
  /\ ~(page[f].submitButton /\ config[f].disabled)

\* the primary listener without the checkValidity() test
PrimaryListenerUnvalidated(p, c, valid) ==
  LET h == HandleFormSubmit(p, c)
  IN  [ c |-> h.c, sent |-> h.sent, body |-> h.body, prevented |-> TRUE ]

\* the first submit listener of setupFormSubmission: returns at once when
\* checkValidity() is false, else prevents the default action, stops the
\* propagation and runs handleFormSubmit up to its first await
PrimaryListener(p, c, valid) ==
  IF ~valid
    THEN [ c |-> c, sent |-> FALSE, body |-> << >>, prevented |-> FALSE ]
    ELSE LET h == HandleFormSubmit(p, c)
         IN  [ c |-> h.c, sent |-> h.sent, body |-> h.body, prevented |-> TRUE ]

\* a capture-phase listener that leaves the event as it finds it
CaptureListenerIdle(prevented) == prevented

\* the second, capture-phase submit listener of setupFormSubmission:
\* e.preventDefault() whatever the event; the result is e.defaultPrevented.
\* (When the primary listener has called stopImmediatePropagation before
\* this one runs, the default action is prevented already.)
CaptureListener(prevented) == TRUE

\* a submit event on form f when checkValidity() is false
SubmitInvalid(f) ==
  /\ CanSubmit(f)
  /\ LET l == PrimaryListener(page[f], BeginHandler(config[f]), FALSE)
     IN  /\ l.sent => Len(requests[f]) < MaxInflight
         /\ config' = [config EXCEPT ![f] = l.c]
         /\ requests' = [requests EXCEPT ![f] = @ \o l.body]
         /\ ev' = Event("submit", f, "invalid", NULL, NoToken,
                      CaptureListener(l.prevented))
  /\ UNCHANGED << static, turnstile, ready, forms, dom, scripts, listeners,
                  successDisplayed, errors >>

\* a submit event on form f when checkValidity() is true
SubmitValid(f) ==
  /\ CanSubmit(f)
  /\ LET l == PrimaryListener(page[f], BeginHandler(config[f]), TRUE)
     IN  /\ l.sent => Len(requests[f]) < MaxInflight
         /\ config' = [config EXCEPT ![f] = l.c]
         /\ requests' = [requests EXCEPT ![f] = @ \o l.body]
         /\ ev' = Event("submit", f, IF l.sent THEN "sent" ELSE "blocked",
                      NULL, NoToken, CaptureListener(l.prevented))
  /\ UNCHANGED << static, turnstile, ready, forms, dom, scripts, listeners,
                  successDisplayed, errors >>

\* handleSuccess shows the document's success element, if there is one
SuccessShown(shown, outcome) ==
  IF outcome = "success" /\ successElement THEN TRUE ELSE shown

\* the awaits of request i of form f are settled and handleFormSubmit runs to
\* its end; throws: window.turnstile.reset() throws in handleSuccess
Respond(f, i, outcome, message, throws) ==
  /\ i \in 1..Len(requests[f])
  /\ outcome = "failure" \/ message = NULL
  /\ outcome = "success" \/ ~throws
  /\ LET c == ResumeFormSubmit(page[f], BeginHandler(config[f]), outcome, message,
                               turnstile, throws)
     IN  /\ Len(c.timers) <= MaxTimers
         /\ config' = [config EXCEPT ![f] = c]
  /\ requests' = [requests EXCEPT ![f] =
                    SubSeq(@, 1, i - 1) \o SubSeq(@, i + 1, Len(@))]
  /\ successDisplayed' = SuccessShown(successDisplayed, outcome)
  /\ ev' = Event("response", f, outcome, message, NoToken, FALSE)
  /\ UNCHANGED << static, turnstile, ready, forms, dom, scripts, listeners, errors >>

\* a setTimeout callback that re-renders whatever the token
OnRerenderTimerAlways(p, c) ==
  RenderTurnstile(p, [c EXCEPT !.timers = Tail(c.timers)])

\* the setTimeout callback of resetTurnstileOnError, one second later
OnRerenderTimer(p, c) ==
  LET fired == [c EXCEPT !.timers = Tail(c.timers)]
  IN  IF fired.turnstileToken = NoToken THEN RenderTurnstile(p, fired) ELSE fired

RerenderTimer(f) ==
  /\ config[f].timers # << >>
  /\ config' = [config EXCEPT ![f] = OnRerenderTimer(page[f], BeginHandler(@))]
  /\ ev' = Event("timer", f, IF Head(config[f].timers) THEN "acquired" ELSE "none",
               NULL, NoToken, FALSE)
  /\ UNCHANGED << static, turnstile, ready, forms, dom, scripts, listeners,
                  requests, successDisplayed, errors >>

Next ==
  \/ SetupForms
  \/ \E f \in FormIds : ScriptLoad(f)
  \/ \E f \in FormIds, token \in Tokens : TokenCallback(f, token)
  \/ \E f \in FormIds : ErrorCallback(f)
  \/ \E f \in FormIds : ExpiredCallback(f)
  \/ \E f \in FormIds : SubmitInvalid(f)
  \/ \E f \in FormIds : SubmitValid(f)
  \/ \E f \in FormIds, i \in 1..MaxInflight, outcome \in Outcomes,
        message \in Messages, throws \in BOOLEAN :
       Respond(f, i, outcome, message, throws)
  \/ \E f \in FormIds : RerenderTimer(f)

(***************************************************************************)
(* The documents of the specification Spec.                                *)
(***************************************************************************)
Profile(present, siteKey, formPurpose, fields, submitButton, submitLabel, errorElement, errorText) ==
  [ present |-> present, siteKey |-> siteKey, formPurpose |-> formPurpose,
    fields |-> fields, submitButton |-> submitButton, submitLabel |-> submitLabel,
    errorElement |-> errorElement, errorText |-> errorText, labelText |-> "Submit" ]

\* the inputs of a form whose one annotated field is complete
CompleteFields ==
  << Element("email", "email", "email", "The sender's address", "", FALSE, FALSE, FALSE) >>

NoForm == Profile(FALSE, NULL, NULL, << >>, FALSE, FALSE, FALSE, FALSE)

ContactForm(b, l, e, t) ==
  Profile(TRUE, "site-key", "Contact form", CompleteFields, b, l, e, t)

Document(a, b, success, loaded) ==
  [ page |-> [A |-> a, B |-> b], successElement |-> success, turnstile |-> loaded ]

\* one valid form: with all the optional elements a handler tests for
\* (submit control, label, error region, error text), lacking each of them
\* in turn, and lacking all; on a page with or without a success element
\* and with or without the provider's script already loaded
Documents ==
  { Document(ContactForm(b, l, e, t), NoForm, TRUE, FALSE) :
      << b, l, e, t >> \in { << TRUE, TRUE, TRUE, TRUE >>,
                             << TRUE, FALSE, TRUE, TRUE >>,
                             << FALSE, TRUE, TRUE, TRUE >>,
                             << TRUE, TRUE, TRUE, FALSE >>,
                             << TRUE, TRUE, FALSE, TRUE >>,
                             << FALSE, FALSE, FALSE, FALSE >> } }
  \cup { Document(ContactForm(TRUE, TRUE, TRUE, TRUE), NoForm, FALSE, loaded) :
           loaded \in BOOLEAN }

TypeOK ==
  /\ ready \in BOOLEAN
  /\ turnstile \in BOOLEAN
  /\ successDisplayed \in BOOLEAN
  /\ \A f \in FormIds :
       /\ config[f].turnstileToken \in {NoToken} \cup Tokens
       /\ Len(config[f].timers) <= MaxTimers
       /\ \A i \in 1..Len(config[f].timers) : config[f].timers[i] \in BOOLEAN
       /\ Len(requests[f]) <= MaxInflight

InitOf(docs) ==
  /\ \E d \in docs :
       /\ page = d.page
       /\ successElement = d.successElement
       /\ turnstile = d.turnstile
  /\ href = "https://example.com/contact"
  /\ ready = FALSE
  /\ forms = << >>
  /\ config = [f \in FormIds |-> InitialConfig(page[f])]
  /\ dom = [f \in FormIds |-> page[f].fields]
  /\ scripts = [f \in FormIds |-> 0]
  /\ listeners = [f \in FormIds |-> 0]
  /\ requests = [f \in FormIds |-> << >>]
  /\ successDisplayed = FALSE
  /\ errors = [f \in FormIds |-> << >>]
  /\ inject = [passes |-> 0, trapName |-> NULL]
  /\ collected = EmptyObject
  /\ ev = Event("init", "-", "-", NULL, NoToken, FALSE)

Init == InitOf(Documents)

Spec == Init /\ [][Next]_vars

(***************************************************************************)
(* Properties of the submission lifecycle, checked under Spec.             *)
(***************************************************************************)
\* the message m is displayed by form f: in the error region when the form
\* has both the error element and the error text element, else by alert()
Displayed(f, m) ==
  IF page[f].errorElement /\ page[f].errorText
    THEN config[f].errorText = m /\ ~config[f].errorHidden
    ELSE config[f].alerts # << >> /\ config[f].alerts[Len(config[f].alerts)] = m

\* the loading presentation setSubmitButtonLoading(config, true) puts a form in
Loading(f) ==
  /\ page[f].submitButton
  /\ config[f].disabled
  /\ page[f].submitLabel => config[f].label = loadingText

\* this step is a submit event on f that passed checkValidity() while the
\* form's token was null
NullTokenSubmit(f) ==
  /\ ev'.op = "submit" /\ ev'.form = f /\ ev'.outcome # "invalid"
  /\ config[f].turnstileToken = NoToken

\* what a null-token submit leaves alone: no request is sent and the
\* loading presentation is not entered
NoRequestNoLoading(f) ==
  /\ requests'[f] = requests[f]
  /\ config'[f].disabled = config[f].disabled
  /\ config'[f].label = config[f].label
  /\ config'[f].originalButtonText = config[f].originalButtonText

\* C1 as stated: every submit that passes native validation while the token
\* is null sends no request, does not enter the loading presentation, and
\* the error region shows "Please complete the security verification."
C1_ErrorRegionShowsMessage ==
  [][\A f \in FormIds :
       NullTokenSubmit(f) =>
         /\ NoRequestNoLoading(f)
         /\ config'[f].errorText = MsgVerificationRequired
         /\ ~config'[f].errorHidden]_vars

\* C1 amended: every submit that passes native validation while the token is
\* null sends no request, does not enter the loading presentation, and shows
\* the verification-required message: in the error region when the form has
\* both the error element and the error text element, and otherwise by
\* alert(), with the error element (if there is one) left hidden
C1_NullTokenSubmitBlocked ==
  [][\A f \in FormIds :
       NullTokenSubmit(f) =>
         /\ NoRequestNoLoading(f)
         /\ IF page[f].errorElement /\ page[f].errorText
              THEN /\ config'[f].errorText = MsgVerificationRequired
                   /\ ~config'[f].errorHidden
                   /\ config'[f].alerts = << >>
              ELSE /\ config'[f].alerts = << MsgVerificationRequired >>
                   /\ config'[f].errorText = config[f].errorText
                   /\ page[f].errorElement => config'[f].errorHidden]_vars

\* a valid submit was blocked for lack of a token after the form's widget
\* had been rendered, and the error region shows the verification-required
\* message
C1_Witness ==
  /\ ev.op = "submit" /\ ev.outcome = "blocked" /\ ev.form = "A"
  /\ page["A"].errorElement /\ page["A"].errorText
  /\ config["A"].errorText = MsgVerificationRequired
  /\ ~config["A"].errorHidden
  /\ config["A"].turnstileWidgetId # NULL
  /\ requests["A"] = << >>

\* C2: the token is null right after every expired callback, error
\* callback, successful submission and failure recovery; it goes from null
\* to non-null only in the token callback of its own form; and a request is
\* sent only from a state in which the token is non-null
C2_TokenLifecycle ==
  [][\A f \in FormIds :
       /\ (ev'.form = f /\ ev'.op \in {"expired", "error", "response"})
            => config'[f].turnstileToken = NoToken
       /\ (config[f].turnstileToken = NoToken /\ config'[f].turnstileToken # NoToken)
            => (ev'.op = "token" /\ ev'.form = f)
       /\ Len(requests'[f]) > Len(requests[f])
            => config[f].turnstileToken # NoToken]_vars

\* a submission succeeded while a second request of the form was still
\* unresolved, and the token is null
C2_Witness ==
  /\ ev.op = "response" /\ ev.outcome = "success" /\ ev.form = "A"
  /\ config["A"].turnstileToken = NoToken
  /\ Len(requests["A"]) = 1

\* C3 as stated: once a success:false response has been handled to the end
\* of handleFormSubmit, the token is null, the submit control is disabled and
\* the message shown is the response's error.message, or the generic
\* fallback when there is none
C3_DisabledAfterFailure ==
  \A f \in FormIds :
    (ev.op = "response" /\ ev.outcome = "failure" /\ ev.form = f) =>
      /\ config[f].turnstileToken = NoToken
      /\ page[f].submitButton => config[f].disabled
      /\ Displayed(f, IF Falsy(ev.message) THEN MsgGenericFailure ELSE ev.message)

\* C4: the token callback with token t stores t and enables the submit
\* control; a valid submit from a state whose stored token is t sends exactly
\* one request, and its body's turnstileToken is t
C4_TokenReachesPayload ==
  [][\A f \in FormIds :
       /\ (ev'.op = "token" /\ ev'.form = f) =>
            /\ config'[f].turnstileToken = ev'.token
            /\ ev'.token \in Tokens
            /\ page[f].submitButton => ~config'[f].disabled
       /\ (ev'.op = "submit" /\ ev'.form = f /\ ev'.outcome # "invalid"
             /\ config[f].turnstileToken # NoToken) =>
            /\ Len(requests'[f]) = Len(requests[f]) + 1
            /\ SubSeq(requests'[f], 1, Len(requests[f])) = requests[f]
            /\ requests'[f][Len(requests'[f])].turnstileToken
                 = config[f].turnstileToken]_vars

\* a request carrying token 2 was just sent while one carrying token 1 is
\* unresolved
C4_Witness ==
  /\ ev.op = "submit" /\ ev.outcome = "sent" /\ ev.form = "A"
  /\ Len(requests["A"]) = 2
  /\ requests["A"][1].turnstileToken = 1
  /\ requests["A"][2].turnstileToken = 2
  /\ config["A"].turnstileToken = 2

\* C5: once a success:true response has been handled, the form is hidden,
\* the success element (if the document has one) is shown, the widget reset
\* has been called and the token is null; without a success element the
\* rest still happens
C5_SuccessHandled ==
  \A f \in FormIds :
    (ev.op = "response" /\ ev.outcome = "success" /\ ev.form = f) =>
      /\ config[f].formHidden
      /\ successElement => successDisplayed
      /\ config[f].resets # << >> /\ config[f].resets[1] = "global"
      /\ config[f].turnstileToken = NoToken

\* a success was handled on a page without a success element
C5_Witness ==
  /\ ev.op = "response" /\ ev.outcome = "success" /\ ev.form = "A"
  /\ ~successElement
  /\ config["A"].formHidden
  /\ config["A"].turnstileToken = NoToken

\* C6: when the request is rejected or its body cannot be parsed, the
\* failure recovery runs (the widget's reset is called with the widget id),
\* the token is null and the network-error message is displayed
C6_NetworkFailureRecovers ==
  \A f \in FormIds :
    (ev.op = "response" /\ ev.outcome \in {"rejected", "unparsable"} /\ ev.form = f) =>
      /\ config[f].resets = << "widget" >>
      /\ config[f].turnstileToken = NoToken
      /\ Displayed(f, MsgNetworkError)

\* the body of a response could not be parsed, on a form without an error
\* text element, after a fresh token had arrived during the request
C6_Witness ==
  /\ ev.op = "response" /\ ev.outcome = "unparsable" /\ ev.form = "A"
  /\ ~page["A"].errorText
  /\ config["A"].alerts = << MsgNetworkError >>
  /\ Len(config["A"].timers) = 1

\* C7: whatever the outcome of the request, the form is not in the loading
\* presentation once handleFormSubmit has run to its end
C7_LoadingLeft ==
  \A f \in FormIds : (ev.op = "response" /\ ev.form = f) => ~Loading(f)

\* a request was rejected on a form with a submit control and a label, and
\* the label shows its authored text again
C7_Witness ==
  /\ ev.op = "response" /\ ev.outcome = "rejected" /\ ev.form = "A"
  /\ page["A"].submitButton /\ page["A"].submitLabel
  /\ config["A"].originalButtonText = "Submit"
  /\ config["A"].label = "Submit"
  /\ ~config["A"].disabled

(***************************************************************************)
(* Pages with two forms: form A lacks a required attribute, form B is      *)
(* valid and goes through the whole lifecycle next to it.                  *)
(***************************************************************************)
NewsletterForm ==
  Profile(TRUE, "site-key", "Newsletter", CompleteFields, TRUE, TRUE, FALSE, FALSE)

\* the ways of lacking the site key, the purpose or both: the attribute is
\* absent or empty
MissingAttributes ==
  { << NULL, "Contact form" >>, << "", "Contact form" >>, << "site-key", NULL >>,
    << "site-key", "" >>, << NULL, "" >> }

PageDocuments ==
  { Document(Profile(TRUE, a[1], a[2], CompleteFields, TRUE, TRUE, TRUE, TRUE),
             NewsletterForm, TRUE, FALSE) : a \in MissingAttributes }
  \cup { Document(Profile(TRUE, NULL, "Contact form", CompleteFields,
                          TRUE, TRUE, TRUE, TRUE),
                  NewsletterForm, TRUE, TRUE) }

InitPage == InitOf(PageDocuments)

SpecPage == InitPage /\ [][Next]_vars

\* form f is in this.forms
Registered(f) == \E i \in 1..Len(forms) : forms[i] = f

\* nothing of the controller has touched form f: it is not registered, its
\* inputs are the authored ones, no script element was appended for it, no
\* widget was rendered or control disabled, and no listener was attached
Untouched(f) ==
  /\ ~Registered(f)
  /\ dom[f] = page[f].fields
  /\ scripts[f] = 0
  /\ config[f] = InitialConfig(page[f])
  /\ listeners[f] = 0

\* C8: a form whose site key or purpose is absent or empty is never
\* registered, gets no trap or metadata field, no script load or widget
\* render, and no submit listener
C8_InvalidFormUntouched ==
  \A f \in FormIds :
    (page[f].present /\ (Falsy(page[f].siteKey) \/ Falsy(page[f].formPurpose)))
      => Untouched(f)

\* form A lacks its purpose and is untouched while form B, set up by the
\* same pass, has its widget rendered and a request in flight
C8_Witness ==
  /\ ready
  /\ page["A"].siteKey = "site-key" /\ page["A"].formPurpose = ""
  /\ Untouched("A")
  /\ forms = << "B" >>
  /\ turnstile
  /\ config["B"].turnstileWidgetId # NULL
  /\ Len(requests["B"]) = 1

(***************************************************************************)
(* Field validation: one form with valid attributes whose inputs are drawn *)
(* from every combination of name, cf-field-type and cf-field-data, set up *)
(* by setupForms.                                                          *)
(***************************************************************************)
FieldChoices ==
  { Element(n, "text", ty, da, "", FALSE, FALSE, FALSE) :
      n \in {NULL, "email", "phone"},
      ty \in {NULL, "", "email", "ignore", "system-metadata"},
      da \in {NULL, "The expected content"} }

RECURSIVE SeqsUpTo(_, _)
\* the sequences over S of length at most n
SeqsUpTo(S, n) ==
  IF n = 0 THEN { << >> }
  ELSE LET shorter == SeqsUpTo(S, n - 1)
       IN  shorter \cup { Append(q, x) : q \in shorter, x \in S }

ValidateDocuments ==
  { Document(Profile(TRUE, "site-key", "Contact form", fs, TRUE, TRUE, TRUE, TRUE),
             NoForm, TRUE, FALSE) : fs \in SeqsUpTo(FieldChoices, MaxFields) }

InitValidate == InitOf(ValidateDocuments)

NextValidate == SetupForms

SpecValidate == InitValidate /\ [][NextValidate]_vars

\* the three requirements on an annotated field, as the specification
\* states them
ViolationKinds == {"missing-type", "missing-data", "missing-name"}
Violates(e, kind) ==
  CASE kind = "missing-type" -> e.fieldType = ""
    [] kind = "missing-data" ->
         e.fieldData \in {NULL, ""} /\ e.fieldType \notin {"ignore", "system-metadata"}
    [] kind = "missing-name" -> e.name \in {NULL, ""}

\* the authored inputs of form A that carry the cf-field-type attribute
AnnotatedA ==
  { i \in 1..Len(page["A"].fields) : page["A"].fields[i].fieldType # NULL }

\* the logged error list has an entry of this kind naming this field (the
\* missing-name entry names the field's type instead)
Reported(e, kind) ==
  \E j \in 1..Len(errors["A"]) :
    errors["A"][j] = << kind, IF kind = "missing-name" THEN e.fieldType ELSE e.name >>

\* C9: validation passes exactly when every annotated field has a non-empty
\* type, a name, and a data description unless its type is ignore or
\* system-metadata; when it fails the error list has one entry for every
\* violation of every field and the form is neither registered nor wired
C9_FieldValidation ==
  LET fields == page["A"].fields
      allOk  == \A i \in AnnotatedA, k \in ViolationKinds : ~Violates(fields[i], k)
  IN  /\ ValidateFieldConfiguration(fields).valid <=> allOk
      /\ ready =>
           /\ Registered("A") <=> allOk
           /\ allOk => errors["A"] = << >>
           /\ ~allOk =>
                /\ Untouched("A")
                /\ \A i \in AnnotatedA, k \in ViolationKinds :
                     Violates(fields[i], k) => Reported(fields[i], k)
                /\ Len(errors["A"]) =
                     Cardinality({ ik \in AnnotatedA \X ViolationKinds :
                                     Violates(fields[ik[1]], ik[2]) })

\* two fields violate, the second in two ways, and the three entries are
\* logged in field order; the form is untouched
C9_Witness ==
  /\ ready
  /\ errors["A"] = << << "missing-data", "email" >>, << "missing-type", "phone" >>,
                      << "missing-data", "phone" >> >>
  /\ Untouched("A")

(***************************************************************************)
(* Trap injection: setupHoneypot and setupPageUrlField run again and again *)
(* on one form while the page address changes between the passes.  The     *)
(* authored inputs may already hold a field named "Page URL", an input     *)
(* marked data-honeypot="true", or a field that has a name of the pool.    *)
(***************************************************************************)
AuthoredChoices ==
  { Element("email", "email", "email", "The sender's address", "", FALSE, FALSE, FALSE),
    Element(pageUrlFieldName, "text", "ignore", NULL, "https://old.example", FALSE,
            FALSE, FALSE),
    Element("trap", "text", NULL, NULL, "", FALSE, TRUE, FALSE),
    Element("honeypot_website", "text", "url", "The sender's site", "", FALSE,
            FALSE, FALSE) }

\* the inputs of d that the trap selector input[data-honeypot="true"] matches
TrapFields(d) == { i \in 1..Len(d) : d[i].honeypot }
\* the inputs of d that the metadata selector input[name="Page URL"] matches
MetadataFields(d) == { i \in 1..Len(d) : d[i].name = pageUrlFieldName }

\* authored forms hold at most one input of each of the two kinds
InjectDocuments ==
  { Document(Profile(TRUE, "site-key", "Contact form", fs, TRUE, TRUE, TRUE, TRUE),
             NoForm, TRUE, FALSE) :
      fs \in { q \in SeqsUpTo(AuthoredChoices, MaxFields) :
                 /\ Cardinality(TrapFields(q)) <= 1
                 /\ Cardinality(MetadataFields(q)) <= 1 } }

Hrefs == {"https://example.com/contact", "https://example.com/contact#form"}

InitInject == InitOf(InjectDocuments)

\* one pass of setupHoneypot(config) and setupPageUrlField(config) on form A
InjectPass(r) ==
  /\ inject.passes < MaxPasses
  /\ dom' = [dom EXCEPT !["A"] = SetupPageUrlField(SetupHoneypot(@, r), href)]
  /\ inject' = [ passes |-> inject.passes + 1,
                 trapName |-> IF inject.passes = 0
                                THEN dom'["A"][CHOOSE i \in TrapFields(dom'["A"]) : TRUE].name
                                ELSE inject.trapName ]
  /\ ev' = Event("inject", "A", "-", NULL, NoToken, FALSE)
  /\ UNCHANGED << page, successElement, href, turnstile, ready, forms, config,
                  scripts, listeners, requests, successDisplayed, errors,
                  collected >>

\* window.location.href changes (a fragment or history navigation)
Navigate(url) ==
  /\ url # href
  /\ href' = url
  /\ ev' = Event("navigate", "-", "-", NULL, NoToken, FALSE)
  /\ UNCHANGED << page, successElement, inject, turnstile, ready, forms, config,
                  dom, scripts, listeners, requests, successDisplayed, errors,
                  collected >>

NextInject ==
  \/ \E r \in 0..(MaxRandom - 1) : InjectPass(r)
  \/ \E url \in Hrefs : Navigate(url)

SpecInject == InitInject /\ [][NextInject]_vars

\* C10: after any number of injection passes (one or more) the form holds
\* exactly one trap field and exactly one metadata field, the trap field has
\* the name it had after the first pass, and right after a pass the
\* metadata field holds the current page address
C10_InjectionIdempotent ==
  inject.passes >= 1 =>
    /\ Cardinality(TrapFields(dom["A"])) = 1
    /\ Cardinality(MetadataFields(dom["A"])) = 1
    /\ \A i \in TrapFields(dom["A"]) : dom["A"][i].name = inject.trapName
    /\ ev.op = "inject" => \A i \in MetadataFields(dom["A"]) : dom["A"][i].value = href

\* a form authored without either field has gone through a second pass
\* after the address changed: its one trap field keeps the second name of
\* the pool and its one metadata field holds the new address
C10_Witness ==
  /\ ev.op = "inject"
  /\ inject.passes >= 2
  /\ TrapFields(page["A"].fields) = {} /\ MetadataFields(page["A"].fields) = {}
  /\ Len(dom["A"]) = Len(page["A"].fields) + 2
  /\ inject.trapName = "honeypot_url"
  /\ href = "https://example.com/contact#form"
  /\ \E i \in MetadataFields(dom["A"]) : dom["A"][i].value = href


(***************************************************************************)
(* SpecCollect: collectFormData applied to a registered form whose inputs  *)
(* are drawn from named and unnamed text inputs, checkboxes, radios and    *)
(* submit inputs.                                                          *)
(***************************************************************************)
\* the keys collectFormData itself writes into the object it returns
ReservedKeys ==
  {"_honeypot_field_name", "_honeypot_filled", "fieldTypes", "fieldDataDescriptions"}

CollectNames == {NULL, "topic", "agree", "fieldTypes"}

CollectChoices ==
  UNION { { Element(n, "text", NULL, NULL, v, FALSE, FALSE, FALSE) : v \in {"", "hello"} }
          \cup { Element(n, "checkbox", NULL, NULL, "on", c, FALSE, FALSE) : c \in BOOLEAN }
          \cup { Element(n, "radio", NULL, NULL, "yes", c, FALSE, FALSE) : c \in BOOLEAN }
          \cup { Element(n, "submit", NULL, NULL, "Send", FALSE, FALSE, FALSE) }
          : n \in CollectNames }

\* the radios of d that belong to the group of d[i]
RadioGroup(d, i) ==
  { j \in 1..Len(d) : d[j].inputType = "radio" /\ d[j].name = d[i].name }

\* a form keeps at most one radio of a group checked
CollectDocuments ==
  { Document(Profile(TRUE, "site-key", "Contact form", fs, TRUE, TRUE, TRUE, TRUE),
             NoForm, TRUE, FALSE) :
      fs \in { q \in SeqsUpTo(CollectChoices, MaxFields) :
                 \A i \in 1..Len(q) :
                   Cardinality({ j \in RadioGroup(q, i) : q[j].checked }) <= 1 } }

InitCollect == InitOf(CollectDocuments)

\* the call collectFormData(config) of handleFormSubmit
Collect(f) ==
  /\ \E i \in 1..Len(forms) : forms[i] = f
  /\ collected' = CollectFormData(dom[f])
  /\ ev' = Event("collect", f, "-", NULL, NoToken, FALSE)
  /\ UNCHANGED << page, successElement, href, inject, turnstile, ready, forms,
                  config, dom, scripts, listeners, requests, successDisplayed,
                  errors >>

NextCollect ==
  \/ SetupForms
  \/ \E f \in FormIds : Collect(f)

SpecCollect == InitCollect /\ [][NextCollect]_vars

\* the control has a name (input.name is truthy)
Named(e) == ~Falsy(DomName(e))
\* the payload holds value v under the name of control e
Holds(e, v) == DomName(e) \in DOMAIN collected /\ collected[DomName(e)] = v
\* the payload serialises control i of form f as the claim says
Serialised(f, i) ==
  LET e == dom[f][i]
      on == { j \in RadioGroup(dom[f], i) : dom[f][j].checked }
  IN  IF e.inputType = "checkbox" THEN Holds(e, [bool |-> e.checked])
      ELSE IF e.inputType = "radio"
        THEN IF on = {} THEN DomName(e) \notin DOMAIN collected
             ELSE \E j \in on : Holds(e, [str |-> dom[f][j].value])
      ELSE Holds(e, [str |-> e.value])

\* C11 as stated: the payload maps every named checkbox to the boolean of
\* its checked state, holds a radio group's key exactly when one option is
\* checked (with that option's value), and maps every other named control
\* to its string value.
C11_PayloadSerialisesNamedControls ==
  ev.op = "collect" =>
    \A i \in 1..Len(dom[ev.form]) :
      Named(dom[ev.form][i]) => Serialised(ev.form, i)

\* the name of control i is its own: shared only by the radios of its group,
\* and not a key that collectFormData writes itself
OwnName(f, i) ==
  /\ dom[f][i].name \notin ReservedKeys
  /\ \A j \in 1..Len(dom[f]) :
       dom[f][j].name = dom[f][i].name =>
         j = i \/ (dom[f][i].inputType = "radio" /\ dom[f][j].inputType = "radio")

\* C11 amended: the serialisation holds for every named control that is not
\* a submit input and whose name is its own (unique in the form but for the
\* radios of one group, and not a reserved payload key); a submit input
\* whose name is its own has no key in the payload.
C11_PayloadSerialisesOwnNames ==
  ev.op = "collect" =>
    \A i \in 1..Len(dom[ev.form]) :
      (Named(dom[ev.form][i]) /\ OwnName(ev.form, i)) =>
        IF dom[ev.form][i].inputType = "submit"
          THEN DomName(dom[ev.form][i]) \notin DOMAIN collected
          ELSE Serialised(ev.form, i)

\* collected: a radio group with no option checked (key omitted) next to a
\* checked checkbox (boolean true)
C11_Witness ==
  /\ ev.op = "collect"
  /\ \E i, j \in 1..Len(dom[ev.form]) :
       /\ dom[ev.form][i].inputType = "radio" /\ dom[ev.form][i].name = "topic"
       /\ ~dom[ev.form][i].checked
       /\ dom[ev.form][j].inputType = "checkbox" /\ dom[ev.form][j].name = "agree"
       /\ dom[ev.form][j].checked
  /\ "topic" \notin DOMAIN collected
  /\ "agree" \in DOMAIN collected /\ collected["agree"] = [bool |-> TRUE]


(***************************************************************************)
(* Submit events on a form whose native validation fails (under Spec).     *)
(***************************************************************************)
\* the form's config object and DOM state, the handler logs aside
Presentation(c) == [c EXCEPT !.alerts = << >>, !.resets = << >>, !.renders = 0]

\* this step is a submit event on form f with checkValidity() false
InvalidSubmitStep(f) ==
  /\ ev'.op = "submit" /\ ev'.form = f /\ ev'.outcome = "invalid"
  /\ config' # config \/ ev' # ev \/ requests' # requests

\* the step clears no error, shows no message, enters no loading state,
\* leaves the token alone and sends no request
NothingFurther(f) ==
  /\ Presentation(config'[f]) = Presentation(config[f])
  /\ config'[f].alerts = << >> /\ config'[f].resets = << >>
  /\ config'[f].renders = 0
  /\ requests' = requests

\* C12 as stated: on a submit event whose native validation fails the
\* controller does nothing further and none of its listeners suppresses the
\* event's default action.
C12_InvalidSubmitNotSuppressed ==
  [][\A f \in FormIds :
       InvalidSubmitStep(f) => NothingFurther(f) /\ ~ev'.prevented]_vars

\* C12 amended: on a submit event whose native validation fails the
\* controller does nothing further (no error clearing, no token check, no
\* loading state, no request); the primary listener leaves the default
\* action alone, and the capture-phase listener suppresses it.
C12_InvalidSubmitIgnored ==
  [][\A f \in FormIds :
       InvalidSubmitStep(f) =>
         /\ NothingFurther(f)
         /\ ~PrimaryListener(page[f], config[f], FALSE).prevented
         /\ ev'.prevented]_vars

\* an invalid submit event arrived while an error message was displayed and
\* a token was held: the message and the token are still there
C12_Witness ==
  \E f \in FormIds :
    /\ ev.op = "submit" /\ ev.form = f /\ ev.outcome = "invalid"
    /\ ~config[f].errorHidden
    /\ config[f].turnstileToken # NoToken
    /\ requests[f] = << >>


(***************************************************************************)
(* Recoverability (under Spec).                                            *)
(***************************************************************************)
\* the last event of form f is one of the error paths: a provider error, a
\* token expiry, a verification failure or a network failure, or the
\* re-render that follows one of them
ErrorPath(f) ==
  /\ ev.form = f
  /\ \/ ev.op \in {"error", "expired", "timer"}
     \/ ev.op = "response" /\ ev.outcome \in {"failure", "rejected", "unparsable"}

\* C13: whenever the submit control of a registered form is disabled, and in
\* particular after a provider error, a token expiry, a verification failure
\* or a network failure, the widget's token callback can fire; and in the
\* state a token callback leaves, the control is enabled and the form holds
\* the delivered token.
C13_FreshTokenReenables ==
  \A f \in FormIds :
    (Registered(f) /\ page[f].submitButton) =>
      /\ (config[f].disabled \/ ErrorPath(f)) =>
           \E t \in Tokens : ENABLED TokenCallback(f, t)
      /\ (ev.op = "token" /\ ev.form = f) =>
           ~config[f].disabled /\ config[f].turnstileToken = ev.token

\* a token callback has re-enabled the control of a form that still
\* displays the provider-error message
C13_Witness ==
  \E f \in FormIds :
    /\ Registered(f) /\ page[f].submitButton
    /\ ev.op = "token" /\ ev.form = f
    /\ Displayed(f, MsgTurnstileError)
    /\ ~config[f].disabled


(***************************************************************************)
(* SpecPair: a page with two valid forms, set up before the provider's     *)
(* script has loaded, and one success element.                             *)
(***************************************************************************)
PairDocuments ==
  { Document(ContactForm(TRUE, TRUE, TRUE, TRUE), NewsletterForm, TRUE, FALSE) }

InitPair == InitOf(PairDocuments)

NextPair ==
  \/ SetupForms
  \/ \E f \in FormIds : ScriptLoad(f)
  \/ \E f \in FormIds, token \in Tokens : TokenCallback(f, token)
  \/ \E f \in FormIds : SubmitValid(f)
  \/ \E f \in FormIds, i \in 1..MaxInflight, outcome \in Outcomes,
        message \in Messages, throws \in BOOLEAN :
       Respond(f, i, outcome, message, throws)

SpecPair == InitPair /\ [][NextPair]_vars

\* the script elements appended to document.head whose load event is pending
PendingScripts == scripts["A"] + scripts["B"]

\* C14 as stated: at most one load of the provider's script is started for
\* the forms set up before the script has loaded, and when that load
\* completes the render of every registered form has run.
C14_SingleScriptLoad ==
  /\ PendingScripts <= 1
  /\ ev.op = "onload" =>
       \A f \in FormIds : Registered(f) => config[f].turnstileWidgetId # NULL


(***************************************************************************)
(* Requests in flight (under Spec).                                        *)
(***************************************************************************)
\* C15 as stated: a form has at most one verification request in flight,
\* and while one is in flight its submit control is disabled.
C15_OneRequestInFlight ==
  \A f \in FormIds :
    /\ Len(requests[f]) <= 1
    /\ (requests[f] # << >> /\ page[f].submitButton) => config[f].disabled


(***************************************************************************)
(* Cross-form effects (under SpecPair).                                    *)
(***************************************************************************)
\* what form f owns: its token, its widget, the state of its submit control,
\* its error region and the display of its config.successElement
FormState(f) ==
  [ turnstileToken |-> config[f].turnstileToken,
    turnstileWidgetId |-> config[f].turnstileWidgetId,
    disabled |-> config[f].disabled, label |-> config[f].label,
    errorHidden |-> config[f].errorHidden, errorText |-> config[f].errorText,
    formHidden |-> config[f].formHidden,
    successDisplayed |-> successElement /\ successDisplayed ]

\* C16 as stated: an event handled for form a leaves the token, widget,
\* submit control, error region and success region of every other
\* registered form b unchanged.
C16_NoCrossFormMutation ==
  [][\A a, b \in FormIds :
       (a # b /\ Registered(a) /\ Registered(b) /\ ev'.form = a) =>
         FormState(b)' = FormState(b)]_vars


(***************************************************************************)
(* The delayed re-render of resetTurnstileOnError (under Spec).            *)
(***************************************************************************)
\* this step is the setTimeout callback of resetTurnstileOnError on form f
TimerStep(f) ==
  /\ config[f].timers # << >>
  /\ ev'.op = "timer" /\ ev'.form = f
  /\ config'[f].timers = Tail(config[f].timers)

\* C17 as stated: when the window elapses the widget is re-rendered if and
\* only if no token callback has run for the form during the window,
\* whatever became of that token.
C17_RerenderIffNoCallback ==
  [][\A f \in FormIds :
       TimerStep(f) => (config'[f].renders = 1 <=> ~Head(config[f].timers))]_vars

\* C17 amended: when the window elapses the widget is re-rendered if and
\* only if the form holds no token at that moment; without a token callback
\* during the window it always is, and a token acquired during the window
\* prevents the re-render only while the form still holds it.
C17_RerenderIffNoToken ==
  [][\A f \in FormIds :
       TimerStep(f) =>
         /\ config'[f].renders = 1 <=> config[f].turnstileToken = NoToken
         /\ ~Head(config[f].timers) => config'[f].renders = 1]_vars

\* the window has elapsed on a form that acquired a token during the window
\* and lost it again: the widget was re-rendered
C17_Witness ==
  \E f \in FormIds :
    /\ ev.op = "timer" /\ ev.form = f /\ ev.outcome = "acquired"
    /\ config[f].renders = 1
    /\ config[f].turnstileToken = NoToken


(***************************************************************************)
(* The submit label across loading cycles (under Spec).                    *)
(***************************************************************************)
\* C18 as stated: whenever no loading cycle of a form is under way, its
\* submit label shows the text it had before the first loading cycle, never
\* the loading text.
C18_LabelRestored ==
  \A f \in FormIds :
    (page[f].submitButton /\ page[f].submitLabel /\ requests[f] = << >>) =>
      config[f].label = page[f].labelText /\ config[f].label # loadingText


(***************************************************************************)
(* Provider error and token expiry (under Spec).                           *)
(***************************************************************************)
\* C19: the error-callback and the expired-callback both clear the token
\* and disable the submit control; the error-callback shows the message
\* "Security verification failed. Please try again.", and the
\* expired-callback shows no message and leaves the visibility and the text
\* of the error region as they were.
C19_ErrorShowsExpirySilent ==
  [][\A f \in FormIds :
       /\ (ev'.form = f /\ ev'.op \in {"error", "expired"}) =>
            /\ config'[f].turnstileToken = NoToken
            /\ page[f].submitButton => config'[f].disabled
       /\ (ev'.form = f /\ ev'.op = "error") =>
            IF page[f].errorElement /\ page[f].errorText
              THEN /\ config'[f].errorText = MsgTurnstileError
                   /\ ~config'[f].errorHidden
              ELSE config'[f].alerts = << MsgTurnstileError >>
       /\ (ev'.form = f /\ ev'.op = "expired") =>
            /\ config'[f].errorHidden = config[f].errorHidden
            /\ config'[f].errorText = config[f].errorText
            /\ config'[f].alerts = << >>]_vars

\* a token expired on a form holding a token while the message of an
\* earlier failed submission was displayed: token cleared, control disabled,
\* the message still displayed
C19_Witness ==
  \E f \in FormIds :
    /\ ev.op = "expired" /\ ev.form = f
    /\ page[f].submitButton /\ config[f].disabled
    /\ config[f].turnstileToken = NoToken
    /\ ~config[f].errorHidden /\ config[f].errorText = MsgGenericFailure


(***************************************************************************)
(* The default action of submit events (under Spec).                       *)
(***************************************************************************)
\* C20: the default action of every submit event dispatched on a registered
\* form is prevented, whether native validation passes (both listeners
\* prevent it) or fails (the primary listener returns, and the capture-phase
\* listener prevents it on its own).
C20_DefaultPrevented ==
  \A f \in FormIds :
    (ev.op = "submit" /\ ev.form = f /\ Registered(f)) =>
      /\ ev.prevented
      /\ ev.outcome = "invalid" =>
           ~PrimaryListener(page[f], config[f], FALSE).prevented

\* a submit event that failed native validation was dispatched on a
\* registered form that holds no token: its default action is prevented
C20_Witness ==
  \E f \in FormIds :
    /\ Registered(f)
    /\ ev.op = "submit" /\ ev.form = f /\ ev.outcome = "invalid"
    /\ config[f].turnstileToken = NoToken
    /\ ev.prevented


(***************************************************************************)
(* Success handling and failure recovery (under Spec).                     *)
(***************************************************************************)
\* this step handles a success:true response of form f to the end of
\* handleFormSubmit
SuccessStep(f) ==
  /\ ev'.op = "response" /\ ev'.form = f /\ ev'.outcome = "success"
  /\ Len(requests'[f]) < Len(requests[f])

\* C21 as stated: handling a success:true response never runs the failure
\* recovery (the only reset call is the one of handleSuccess, and no
\* re-render is scheduled) and shows no error message, even when the reset
\* of handleSuccess throws.
C21_SuccessExcludesRecovery ==
  [][\A f \in FormIds :
       SuccessStep(f) =>
         /\ config'[f].formHidden
         /\ config'[f].resets = << "global" >>
         /\ config'[f].timers = config[f].timers
         /\ config'[f].alerts = << >>
         /\ config'[f].errorHidden = config[f].errorHidden
         /\ config'[f].errorText = config[f].errorText]_vars

====
